---- MODULE Spec2Model ----
(***************************************************************************)
(* Model of whatsapp_sender.py: read_contacts_from_excel (the spreadsheet  *)
(* reader, the message composer and the read-time image path resolution)   *)
(* and the control flow of send_bulk_messages, with find_image_for_contact, *)
(* send_whatsapp_message and send_image_with_caption as operators.         *)
(*                                                                         *)
(* Spec is send_bulk_messages as __main__ configures it (START_FROM = 0,   *)
(* IMAGES_FOLDER = None, DEFAULT_IMAGE = None) on any workbook; SpecBulk   *)
(* is send_bulk_messages with any image configuration and start_from on a  *)
(* readable workbook; SpecCalls is one direct call of                      *)
(* find_image_for_contact or send_whatsapp_message.                        *)
(* SpecBox is one call of get_fresh_message_box, lookup by lookup;         *)
(* SpecRuns is send_bulk_messages on a text-only list with the user's      *)
(* KeyboardInterrupt at the login, in the loop and in the final wait, and  *)
(* one restart at the printed resume index; SpecRunsFair adds progress.    *)
(*                                                                         *)
(* Text is a sequence of one-character strings.  Python's None, where a    *)
(* variable holds "a string or None", is the one-element sequence PyNone,  *)
(* which no text equals because its element is not a single character.     *)
(* A sheet is a sequence of rows, a row a sequence of 1..4 cells; cell k   *)
(* of the model is row[k-1] of the code.                                   *)
(***************************************************************************)
EXTENDS Integers, Sequences, FiniteSets, TLC

\* Bound: the number of data rows below the header row.
MaxRows == 2

\* START_FROM of __main__.
START_FROM == 0

PyNone == <<"<None>">>

\* DEFAULT_IMAGE and IMAGES_FOLDER of __main__.
DEFAULT_IMAGE == PyNone
IMAGES_FOLDER == PyNone

\* Truth value of "a string or None".
PyTruthy(x) == x # PyNone /\ x # <<>>

-----------------------------------------------------------------------------
(* Cell values as openpyxl hands them over with values_only=True. *)

NoneCell == [t |-> "none", s |-> <<>>, n |-> 0]
StrCell(str) == [t |-> "str", s |-> str, n |-> 0]
IntCell(i) == [t |-> "int", s |-> <<>>, n |-> i]

\* Truth value of a cell value: None, "" and 0 are false.
Truthy(cell) ==
    \/ cell.t = "str" /\ cell.s # <<>>
    \/ cell.t = "int" /\ cell.n # 0

DigitChars == <<"0", "1", "2", "3", "4", "5", "6", "7", "8", "9">>

RECURSIVE IntStr(_)
IntStr(i) ==
    IF i < 10 THEN <<DigitChars[i + 1]>>
    ELSE IntStr(i \div 10) \o <<DigitChars[(i % 10) + 1]>>

\* str(value)
Str(cell) ==
    CASE cell.t = "str" -> cell.s
      [] cell.t = "int" -> IntStr(cell.n)
      [] OTHER -> <<"N", "o", "n", "e">>

\* The characters str.strip() removes.
Whitespace == {" ", "\t", "\n", "\r"}

RECURSIVE LStrip(_, _)
LStrip(str, chars) ==
    IF str # <<>> /\ Head(str) \in chars THEN LStrip(Tail(str), chars) ELSE str

RECURSIVE RStrip(_, _)
RStrip(str, chars) ==
    IF str # <<>> /\ str[Len(str)] \in chars
    THEN RStrip(SubSeq(str, 1, Len(str) - 1), chars)
    ELSE str

\* str.strip()
Strip(str) == RStrip(LStrip(str, Whitespace), Whitespace)

\* str.replace(ch, "") for a one-character ch.
RECURSIVE Replace(_, _)
Replace(str, ch) ==
    IF str = <<>> THEN <<>>
    ELSE IF Head(str) = ch THEN Replace(Tail(str), ch)
    ELSE <<Head(str)>> \o Replace(Tail(str), ch)

-----------------------------------------------------------------------------
(* Paths (POSIX). *)

\* os.getcwd()
Cwd == <<"/", "w">>

\* os.path.isabs
IsAbs(p) == p # <<>> /\ Head(p) = "/"

\* os.path.join(a, b)
Join(a, b) ==
    IF IsAbs(b) THEN b
    ELSE IF a = <<>> \/ a[Len(a)] = "/" THEN a \o b
    ELSE a \o <<"/">> \o b

\* os.path.abspath, for paths without ".", ".." or doubled separators.
Abspath(p) == IF IsAbs(p) THEN p ELSE Join(Cwd, p)

RECURSIVE LastSlash(_, _)
LastSlash(p, i) ==
    IF i = 0 THEN 0 ELSE IF p[i] = "/" THEN i ELSE LastSlash(p, i - 1)

\* os.path.dirname
Dirname(p) ==
    LET i == LastSlash(p, Len(p))
        head == SubSeq(p, 1, i)
    IN  IF head # <<>> /\ \E k \in 1..Len(head) : head[k] # "/"
        THEN RStrip(head, {"/"})
        ELSE head

-----------------------------------------------------------------------------
(* One iteration of the row loop of read_contacts_from_excel. *)

\* The row passes "if row[0] and row[2]" without raising.
RowAccepted(row) == Truthy(row[1]) /\ Len(row) >= 3 /\ Truthy(row[3])

\* "row[0] and row[2]" raises IndexError: row[0] is true and row[2] is absent.
RowRaises(row) == Truthy(row[1]) /\ Len(row) < 3

contact_name(row) ==
    IF Len(row) > 1 /\ Truthy(row[2])
    THEN LET name == Strip(Str(row[2]))
         IN  IF name = <<>> THEN PyNone ELSE name
    ELSE PyNone

message(row) == Strip(Str(row[3]))

final_message(row) ==
    IF PyTruthy(contact_name(row))
    THEN <<"D", "e", "a", "r", " ">> \o contact_name(row) \o <<",", "\n", "\n">>
         \o LStrip(message(row), {"\n", "\r"})
    ELSE message(row)

\* The number formatting with the removal of ")" left out.
contact_keeps_paren(row) ==
    Replace(Replace(Replace(Strip(Str(row[1])), " "), "-"), "(")

\* The number formatting with the removal of "-" left out.
contact_keeps_hyphen(row) ==
    Replace(Replace(Replace(Strip(Str(row[1])), " "), "("), ")")

contact(row) ==
    Replace(Replace(Replace(Replace(Strip(Str(row[1])), " "), "-"), "("), ")")

image_path(row, path) ==
    IF Len(row) > 3 /\ Truthy(row[4])
    THEN LET p == Strip(Str(row[4]))
         IN  IF p # <<>>
             THEN IF ~IsAbs(p) THEN Join(Dirname(Abspath(path)), p) ELSE p
             ELSE p
    ELSE PyNone

-----------------------------------------------------------------------------
(* The inputs: the spreadsheet file and the sheet it holds. *)

\* Row 1 of the sheet, as create_template writes it: it would pass the row
\* filter if it were scanned.
HeaderRow == <<StrCell(<<"N", "o">>), StrCell(<<"N", "m">>), StrCell(<<"M", "s">>)>>

\* Number and message cells that are empty, blank, zero or filled.
PresenceCells ==
    {NoneCell, StrCell(<<" ">>), IntCell(0), StrCell(<<"1", "2">>)}

\* Number cells with separators, a '+', letters and inner whitespace.
NumberCells ==
    {StrCell(<<" ", "+", "1", " ", "(", "2", ")", "-", "3", " ">>),
     StrCell(<<"(", "+", "1", ")">>),
     StrCell(<<"1", "+", "a">>),
     StrCell(<<"1", "\t", "2">>),
     IntCell(12)}

NameCells == {NoneCell, StrCell(<<" ">>), StrCell(<<" ", "A", "l", " ">>)}

BodyCells ==
    {StrCell(<<"H", "i">>), StrCell(<<"\n", " ", "H", "i", " ", "\n">>)}

ImageCells ==
    {NoneCell, StrCell(<<" ">>), StrCell(<<"a", ".", "j", "p", "g">>),
     StrCell(<<" ", "/", "i", "/", "a", ".", "j", "p", "g">>)}

Rows ==
    {<<a, NoneCell, c>> : a \in PresenceCells, c \in PresenceCells}
    \cup {<<a, NoneCell, StrCell(<<"H", "i">>)>> : a \in NumberCells}
    \cup {<<StrCell(<<"1", "2">>), b, c>> : b \in NameCells, c \in BodyCells}
    \cup {<<StrCell(<<"1", "2">>), NoneCell, StrCell(<<"H", "i">>), d>> : d \in ImageCells}
    \cup {<<NoneCell>>, <<StrCell(<<"1", "2">>)>>,
          <<StrCell(<<"1", "2">>), StrCell(<<" ", "A", "l", " ">>)>>}

RECURSIVE SeqsUpTo(_, _)
SeqsUpTo(S, k) ==
    IF k = 0 THEN {<<>>}
    ELSE LET shorter == SeqsUpTo(S, k - 1)
         IN  shorter \cup {Append(q, x) : q \in {r \in shorter : Len(r) = k - 1}, x \in S}

\* A sheet without any row, or the header row and up to MaxRows data rows.
Sheets == {<<>>} \cup {<<HeaderRow>> \o rows : rows \in SeqsUpTo(Rows, MaxRows)}

\* The file in the working directory, and the file in the root directory.
FilePaths == {<<"c", ".", "x">>, <<"/", "c", ".", "x">>}

-----------------------------------------------------------------------------
(* The file system: the listing of every directory, in os.listdir order,    *)
(* and the directories whose listing cannot be read.                        *)

\* os.path.exists
Exists(filesystem, p) ==
    \/ p \in DOMAIN filesystem.list
    \/ \E d \in DOMAIN filesystem.list :
         \E k \in 1..Len(filesystem.list[d]) : p = Join(d, filesystem.list[d][k])

\* os.listdir(d) raises.
ListDirRaises(filesystem, d) ==
    d \notin DOMAIN filesystem.list \/ d \in filesystem.unlistable

UpperChars ==
    <<"A", "B", "C", "D", "E", "F", "G", "H", "I", "J", "K", "L", "M",
      "N", "O", "P", "Q", "R", "S", "T", "U", "V", "W", "X", "Y", "Z">>

LowerChars ==
    <<"a", "b", "c", "d", "e", "f", "g", "h", "i", "j", "k", "l", "m",
      "n", "o", "p", "q", "r", "s", "t", "u", "v", "w", "x", "y", "z">>

\* str.lower()
Lower(str) ==
    [k \in 1..Len(str) |->
        IF \E j \in 1..26 : UpperChars[j] = str[k]
        THEN LowerChars[CHOOSE j \in 1..26 : UpperChars[j] = str[k]]
        ELSE str[k]]

\* str.endswith
EndsWith(str, suffix) ==
    /\ Len(suffix) <= Len(str)
    /\ SubSeq(str, Len(str) - Len(suffix) + 1, Len(str)) = suffix

-----------------------------------------------------------------------------
(* find_image_for_contact *)

image_extensions ==
    <<<<".", "j", "p", "g">>, <<".", "j", "p", "e", "g">>, <<".", "p", "n", "g">>,
      <<".", "g", "i", "f">>, <<".", "w", "e", "b", "p">>>>

clean_number(contact_number) ==
    Replace(Replace(Replace(contact_number, "+"), " "), "-")

\* "any(file_lower.endswith(ext) for ext in image_extensions)"
IsImageName(file) ==
    LET file_lower == Lower(file)
    IN  \E k \in 1..Len(image_extensions) : EndsWith(file_lower, image_extensions[k])

\* "for ext in image_extensions: if os.path.exists(...): return image_path":
\* the path returned, or None when the loop ends without a return.
NumberMatch(filesystem, dir, number) ==
    LET hits == {k \in 1..Len(image_extensions) :
                    Exists(filesystem, Join(dir, number \o image_extensions[k]))}
    IN  IF hits = {} THEN PyNone
        ELSE Join(dir, number \o image_extensions[
                 CHOOSE k \in hits : \A j \in hits : k <= j])

\* The listing loop without its try/except: a failing os.listdir propagates.
ListingMatchUnguarded(filesystem, dir) ==
    IF ListDirRaises(filesystem, dir) THEN [raised |-> TRUE, path |-> PyNone]
    ELSE LET names == filesystem.list[dir]
             hits == {k \in 1..Len(names) : IsImageName(names[k])}
         IN  [raised |-> FALSE,
              path |-> IF hits = {} THEN PyNone
                       ELSE Join(dir, names[CHOOSE k \in hits : \A j \in hits : k <= j])]

\* "try: for file in os.listdir(dir): ... return os.path.join(dir, file)
\* except: pass": the path returned, or None when nothing is returned.
ListingMatch(filesystem, dir) ==
    IF ListDirRaises(filesystem, dir) THEN [raised |-> FALSE, path |-> PyNone]
    ELSE LET names == filesystem.list[dir]
             hits == {k \in 1..Len(names) : IsImageName(names[k])}
         IN  [raised |-> FALSE,
              path |-> IF hits = {} THEN PyNone
                       ELSE Join(dir, names[CHOOSE k \in hits : \A j \in hits : k <= j])]

\* Priority 2 and 3: the directory of the Excel file.
FindInExcelDir(filesystem, excel_dir, number) ==
    LET by_number == NumberMatch(filesystem, excel_dir, number)
    IN  IF by_number # PyNone THEN [raised |-> FALSE, path |-> by_number]
        ELSE ListingMatch(filesystem, excel_dir)

\* The function with the extension loop of the folder run last to first.
find_image_last_extension(filesystem, contact_number, excel_file_path, folder) ==
    LET excel_dir == Dirname(Abspath(excel_file_path))
        number == clean_number(contact_number)
        abs_folder == IF IsAbs(folder) THEN folder ELSE Join(excel_dir, folder)
        hits == {k \in 1..Len(image_extensions) :
                    Exists(filesystem, Join(abs_folder, number \o image_extensions[k]))}
    IN  IF PyTruthy(folder) /\ Exists(filesystem, abs_folder) /\ hits # {}
        THEN [raised |-> FALSE,
              path |-> Join(abs_folder, number \o image_extensions[
                           CHOOSE k \in hits : \A j \in hits : k >= j])]
        ELSE IF PyTruthy(folder) /\ Exists(filesystem, abs_folder)
                /\ ListingMatch(filesystem, abs_folder).path # PyNone
        THEN ListingMatch(filesystem, abs_folder)
        ELSE FindInExcelDir(filesystem, excel_dir, number)

\* The function without the "any image of the folder" step.
find_image_skips_folder_listing(filesystem, contact_number, excel_file_path, folder) ==
    LET excel_dir == Dirname(Abspath(excel_file_path))
        number == clean_number(contact_number)
        abs_folder == IF IsAbs(folder) THEN folder ELSE Join(excel_dir, folder)
    IN  IF PyTruthy(folder) /\ Exists(filesystem, abs_folder)
           /\ NumberMatch(filesystem, abs_folder, number) # PyNone
        THEN [raised |-> FALSE, path |-> NumberMatch(filesystem, abs_folder, number)]
        ELSE FindInExcelDir(filesystem, excel_dir, number)

\* The result of find_image_for_contact: the path returned (None for
\* "return None"), or raised when an exception leaves the function.
find_image_for_contact(filesystem, contact_number, excel_file_path, folder) ==
    LET excel_dir == Dirname(Abspath(excel_file_path))
        number == clean_number(contact_number)
        abs_folder == IF IsAbs(folder) THEN folder ELSE Join(excel_dir, folder)
        by_number == NumberMatch(filesystem, abs_folder, number)
        by_listing == ListingMatch(filesystem, abs_folder)
    IN  IF PyTruthy(folder) /\ Exists(filesystem, abs_folder)
        THEN IF by_number # PyNone THEN [raised |-> FALSE, path |-> by_number]
             ELSE IF by_listing.raised \/ by_listing.path # PyNone THEN by_listing
             ELSE FindInExcelDir(filesystem, excel_dir, number)
        ELSE FindInExcelDir(filesystem, excel_dir, number)

\* The search query with the '+' removed as well.
search_query_drops_plus(contact_number) ==
    Replace(Replace(Replace(Replace(Replace(contact_number, "+"), " "), "-"), "("), ")")

\* send_whatsapp_message: search_query
search_query(contact_number) ==
    Replace(Replace(Replace(Replace(contact_number, " "), "-"), "("), ")")

-----------------------------------------------------------------------------
(* send_whatsapp_message and send_image_with_caption.  What the browser     *)
(* does is the environment of a call, one boolean per place it can fail.    *)

SendEnvs ==
    [reach : BOOLEAN,        \* search box, contact and message box are found
     chat_open : BOOLEAN,    \* verify_chat_is_open() at the start of the image send
     image_ok : BOOLEAN,     \* the attach-and-send steps end with sent = True
     fallback_ok : BOOLEAN,  \* send_text_fallback() returns True
     text_ok : BOOLEAN]      \* the text-only path ends with its final return True

\* The image send that gives up on a missing file without the fallback.
send_image_no_fallback(filesystem, path, env) ==
    IF env.chat_open /\ Exists(filesystem, Abspath(path)) /\ env.image_ok
    THEN [returned |-> TRUE, image_sent |-> TRUE,
          fallback_called |-> FALSE, caption_sent |-> FALSE, delays |-> 1]
    ELSE IF env.chat_open /\ Exists(filesystem, Abspath(path))
    THEN [returned |-> env.fallback_ok, image_sent |-> FALSE,
          fallback_called |-> TRUE, caption_sent |-> env.fallback_ok, delays |-> 0]
    ELSE [returned |-> FALSE, image_sent |-> FALSE,
          fallback_called |-> FALSE, caption_sent |-> FALSE, delays |-> 0]

\* send_image_with_caption: the value returned, and what was done on the way.
send_image_with_caption(filesystem, path, env) ==
    IF ~env.chat_open
    THEN [returned |-> FALSE, image_sent |-> FALSE,
          fallback_called |-> FALSE, caption_sent |-> FALSE, delays |-> 0]
    ELSE IF ~Exists(filesystem, Abspath(path))
    THEN [returned |-> env.fallback_ok, image_sent |-> FALSE,
          fallback_called |-> TRUE, caption_sent |-> env.fallback_ok, delays |-> 0]
    ELSE IF env.image_ok
    THEN [returned |-> TRUE, image_sent |-> TRUE,
          fallback_called |-> FALSE, caption_sent |-> FALSE, delays |-> 1]
    ELSE [returned |-> env.fallback_ok, image_sent |-> FALSE,
          fallback_called |-> TRUE, caption_sent |-> env.fallback_ok, delays |-> 0]

NoImageSend ==
    [returned |-> FALSE, image_sent |-> FALSE,
     fallback_called |-> FALSE, caption_sent |-> FALSE, delays |-> 0]

\* send_whatsapp_message: the value returned (sent), and what was done on the
\* way; delays counts the time.sleep(delay_seconds) calls made, those of
\* send_image_with_caption included.  Every exception is caught inside the
\* function, so raised is FALSE.
send_whatsapp_message(filesystem, path, env) ==
    LET image == IF PyTruthy(path)
                 THEN send_image_with_caption(filesystem, path, env)
                 ELSE NoImageSend
    IN  IF ~env.reach
        THEN [sent |-> FALSE, raised |-> FALSE, image_called |-> FALSE,
              image |-> NoImageSend, text_attempted |-> FALSE, delays |-> 0]
        ELSE IF image.returned
        THEN [sent |-> TRUE, raised |-> FALSE, image_called |-> TRUE,
              image |-> image, text_attempted |-> FALSE,
              delays |-> image.delays + 1]
        ELSE [sent |-> env.text_ok, raised |-> FALSE, image_called |-> PyTruthy(path),
              image |-> image, text_attempted |-> TRUE,
              delays |-> image.delays + (IF env.text_ok THEN 1 ELSE 0)]

-----------------------------------------------------------------------------
(* Inputs of the image modes: a workbook c.x in the working directory, an   *)
(* images folder im beside it, and the files the two directories may hold.  *)

BulkFilePath == <<"c", ".", "x">>

ExcelDir == Dirname(Abspath(BulkFilePath))

FolderName == <<"i", "m">>

Folder == Join(ExcelDir, FolderName)

DefaultImageName == <<"d", ".", "j", "p", "g">>

ExcelDirListings ==
    {<<<<"c", ".", "x">>>>,
     <<<<"c", ".", "x">>,
       <<"1", "2", ".", "p", "n", "g">>,
       <<"1", "2", ".", "j", "p", "g">>,
       <<"d", ".", "j", "p", "g">>>>,
     <<<<"x", ".", "J", "P", "G">>,
       <<"c", ".", "x">>,
       <<"a", ".", "j", "p", "g">>>>}

FolderListings ==
    {<<>>,
     <<<<"n", ".", "t", "x", "t">>,
       <<"z", ".", "g", "i", "f">>,
       <<"y", ".", "p", "n", "g">>>>,
     <<<<"1", "2", ".", "w", "e", "b", "p">>,
       <<"1", "2", ".", "j", "p", "e", "g">>,
       <<"y", ".", "p", "n", "g">>>>}

FileSystems ==
    {[list |-> (ExcelDir :> beside), unlistable |-> unlistable] :
        beside \in ExcelDirListings, unlistable \in SUBSET {ExcelDir}}
    \cup
    {[list |-> (ExcelDir :> Append(beside, FolderName)) @@ (Folder :> inside),
      unlistable |-> unlistable] :
        beside \in ExcelDirListings, inside \in FolderListings,
        unlistable \in SUBSET {ExcelDir, Folder}}

\* No file besides the workbook.
MainFs == [list |-> (Cwd :> <<>>), unlistable |-> {}]

BulkRows ==
    {<<StrCell(<<"+", "1", "2">>), NoneCell, StrCell(<<"H", "i">>)>>,
     <<StrCell(<<"1", "2">>), NoneCell, StrCell(<<"H", "i">>), StrCell(<<"a", ".", "j", "p", "g">>)>>,
     <<IntCell(3), NoneCell, StrCell(<<"H", "i">>), StrCell(<<" ">>)>>}

\* The sheets of the image modes hold one row more than MaxRows, so that a
\* run resumed at start_from still has two contacts to attempt.
MaxBulkRows == MaxRows + 1

BulkSheets == {<<HeaderRow>> \o rows : rows \in SeqsUpTo(BulkRows, MaxBulkRows)}

\* The file systems of a whole run: every listing can be read, and the
\* images folder, when present, holds images.
BulkFileSystems ==
    {f \in FileSystems :
        /\ f.unlistable = {}
        /\ Folder \in DOMAIN f.list => f.list[Folder] # <<>>}

\* The arguments of send_bulk_messages as __main__ passes them.
MainArgs ==
    [start_from |-> START_FROM, images_folder |-> IMAGES_FOLDER,
     default_image |-> DEFAULT_IMAGE]

BulkArgs ==
    [start_from : 0..MaxRows,
     images_folder : {PyNone, FolderName},
     default_image : {PyNone, DefaultImageName}]

-----------------------------------------------------------------------------
(* The state of one run of send_bulk_messages(file_path, ...). *)

VARIABLES
    file_status,    \* "ok", "missing" or "corrupt": what load_workbook finds
    file_path,      \* excel_file_path
    sheet,          \* workbook.active: the rows of the sheet, row 1 first
    args,           \* start_from, images_folder and default_image as passed
    fs,             \* the file system
    pc,             \* the place the run has reached
    row_index,      \* the sheet row the reader's loop scans next
    read_contacts,  \* contacts of read_contacts_from_excel; each entry carries
                    \* the sheet row it was built from (row, not in the code)
    error_branch,   \* the reader's "except Exception" branch was entered
    contacts,       \* contacts of send_bulk_messages
    default_image,  \* the parameters of send_bulk_messages, which it reassigns
    images_folder,
    driver,         \* "none", "open" or "quit"
    index,          \* the index the delivery loop takes next, start_from before it
    successful,     \* counters of the delivery loop, 0 before it
    failed,
    attempts,       \* the calls of send_whatsapp_message that have returned
    call,           \* a direct call of one function: its arguments
    result,         \* <<>>, or the result of that call
    box,            \* a call of get_fresh_message_box: its progress
    logged_in,      \* "pending", or how init_whatsapp_web ended
    cut,            \* the KeyboardInterrupts of this run, in order
    resume,         \* <<>>, or the resume index the interrupt handler printed
    runs            \* the earlier runs on the same workbook

vars ==
    <<file_status, file_path, sheet, args, fs, pc, row_index, read_contacts,
      error_branch, contacts, default_image, images_folder, driver, index,
      successful, failed, attempts, call, result, box, logged_in, cut, resume,
      runs>>

reader_vars == <<row_index, read_contacts, error_branch>>
bulk_vars == <<default_image, images_folder, driver, index, successful, failed, attempts>>
input_vars == <<file_status, file_path, sheet, args, fs>>
call_vars == <<call, result, box>>
run_vars == <<logged_in, cut, resume, runs>>

NoBox ==
    [max_retries |-> 0, attempt |-> 0, selector |-> 0, lookups |-> 0,
     last |-> "none", returned |-> "none", raised |-> FALSE]

NoCall ==
    [fn |-> "none", contact_number |-> <<>>, images_folder |-> PyNone,
     image_path |-> PyNone, env |-> CHOOSE env \in SendEnvs : TRUE]

\* The state at the first statement of send_bulk_messages.
Start ==
    /\ pc = "load"
    /\ row_index = 2
    /\ read_contacts = <<>>
    /\ error_branch = FALSE
    /\ contacts = <<>>
    /\ default_image = args.default_image
    /\ images_folder = args.images_folder
    /\ driver = "none"
    /\ index = args.start_from
    /\ successful = 0
    /\ failed = 0
    /\ attempts = <<>>
    /\ call = NoCall
    /\ result = <<>>
    /\ box = NoBox
    /\ logged_in = "pending"
    /\ cut = <<>>
    /\ resume = <<>>

\* send_bulk_messages as __main__ calls it, on any workbook.
Init ==
    /\ file_status \in {"ok", "missing", "corrupt"}
    /\ file_path \in FilePaths
    /\ sheet \in (IF file_status = "ok" THEN Sheets ELSE {<<>>})
    /\ args = MainArgs
    /\ fs = MainFs
    /\ runs = <<>>
    /\ Start

\* send_bulk_messages with any image configuration, on a readable workbook.
InitBulk ==
    /\ file_status = "ok"
    /\ file_path = BulkFilePath
    /\ sheet \in BulkSheets
    /\ args \in BulkArgs
    /\ fs \in BulkFileSystems
    /\ runs = <<>>
    /\ Start

-----------------------------------------------------------------------------
(* read_contacts_from_excel *)

\* What the "except Exception" branch returns to the caller.
ExceptReturn(built) == <<>>

\* openpyxl.load_workbook(file_path): the workbook opens, or the call raises
\* and the except branch returns.
LoadWorkbook ==
    /\ pc = "load"
    /\ IF file_status = "ok"
       THEN /\ pc' = "rows"
            /\ UNCHANGED <<error_branch, contacts>>
       ELSE /\ pc' = "returned"
            /\ error_branch' = TRUE
            /\ contacts' = ExceptReturn(read_contacts)
    /\ UNCHANGED <<input_vars, row_index, read_contacts, bulk_vars, call_vars, run_vars>>

\* One iteration of "for row in sheet.iter_rows(min_row=2, values_only=True)".
IterRow ==
    /\ pc = "rows"
    /\ row_index <= Len(sheet)
    /\ LET row == sheet[row_index]
       IN  IF RowRaises(row)
           THEN /\ pc' = "returned"
                /\ error_branch' = TRUE
                /\ contacts' = ExceptReturn(read_contacts)
                /\ UNCHANGED <<row_index, read_contacts>>
           ELSE /\ read_contacts' =
                     IF RowAccepted(row)
                     THEN Append(read_contacts,
                                 [number |-> contact(row),
                                  message |-> final_message(row),
                                  image_path |-> image_path(row, file_path),
                                  row |-> row_index])
                     ELSE read_contacts
                /\ row_index' = row_index + 1
                /\ UNCHANGED <<pc, error_branch, contacts>>
    /\ UNCHANGED <<input_vars, bulk_vars, call_vars, run_vars>>

\* The loop is exhausted: workbook.close() and "return contacts".
EndOfRows ==
    /\ pc = "rows"
    /\ row_index > Len(sheet)
    /\ pc' = "returned"
    /\ contacts' = read_contacts
    /\ UNCHANGED <<input_vars, reader_vars, bulk_vars, call_vars, run_vars>>

-----------------------------------------------------------------------------
(* send_bulk_messages *)

\* The emptiness test as "contacts is None", which no list satisfies.
NoContactsIsNone(list) == FALSE

\* "not contacts"
NoContacts(list) == list = <<>>

\* "if not contacts: return"
CheckContacts ==
    /\ pc = "returned"
    /\ pc' = IF NoContacts(contacts) THEN "halted" ELSE "images"
    /\ UNCHANGED <<input_vars, reader_vars, contacts, bulk_vars, call_vars, run_vars>>

\* "if default_image: ..." : the default image made absolute, or None when
\* the file does not exist.
checked_default_image(filesystem, path, image) ==
    IF ~PyTruthy(image) THEN image
    ELSE LET absolute == IF IsAbs(image) THEN image
                         ELSE Join(Dirname(Abspath(path)), image)
         IN  IF Exists(filesystem, absolute) THEN absolute ELSE PyNone

\* "if images_folder and not default_image: ..." : the folder made absolute,
\* or None when it does not exist; image is the checked default image.
checked_images_folder(filesystem, path, image, folder) ==
    IF PyTruthy(folder) /\ ~PyTruthy(image)
    THEN LET absolute == IF IsAbs(folder) THEN folder
                         ELSE Join(Dirname(Abspath(path)), folder)
         IN  IF Exists(filesystem, absolute) THEN absolute ELSE PyNone
    ELSE folder

\* The checks of the default image and of the images folder.
CheckImages ==
    /\ pc = "images"
    /\ default_image' = checked_default_image(fs, file_path, default_image)
    /\ images_folder' = checked_images_folder(fs, file_path, default_image', images_folder)
    /\ pc' = "setup"
    /\ UNCHANGED <<input_vars, reader_vars, contacts, driver, index, successful,
                   failed, attempts, call_vars, run_vars>>

\* The Chrome driver is created, or both attempts fail and the function returns.
SetupDriver ==
    /\ pc = "setup"
    /\ \E created \in BOOLEAN :
         IF created
         THEN driver' = "open" /\ pc' = "login"
         ELSE driver' = driver /\ pc' = "halted"
    /\ UNCHANGED <<input_vars, reader_vars, contacts, default_image, images_folder,
                   index, successful, failed, attempts, call_vars, run_vars>>

\* The delivery loop entered whatever init_whatsapp_web returned.
after_login_always_loop(outcome) == "loop"

\* A send_bulk_messages whose login failure returns without its finally block.
after_login_skips_finally(outcome) == IF outcome = "yes" THEN "loop" ELSE "halted"

\* "if not init_whatsapp_web(driver): return" inside the try block: the loop
\* follows a True result; a False result and an exception lead to finally.
after_login(outcome) == IF outcome = "yes" THEN "loop" ELSE "finally"

\* init_whatsapp_web(driver): the login succeeds ("yes"), the wait times out
\* ("timeout"), or driver.get or the wait raises another exception ("raised").
InitWhatsappWeb ==
    /\ pc = "login"
    /\ \E outcome \in {"yes", "timeout", "raised"} :
         /\ logged_in' = outcome
         /\ pc' = after_login(outcome)
    /\ UNCHANGED <<input_vars, reader_vars, contacts, bulk_vars, call_vars,
                   cut, resume, runs>>

\* The loop over the whole list, counted from zero.
EnumeratedFromZero(list, from) ==
    [k \in 1..Len(list) |-> [index |-> k - 1, contact |-> list[k]]]

\* enumerate(contacts[start_from:], start=start_from)
Enumerated(list, from) ==
    [k \in 1..(IF Len(list) > from THEN Len(list) - from ELSE 0) |->
        [index |-> from + k - 1, contact |-> list[from + k]]]

\* The image selection with the row's own path looked at before the default.
loop_image_path_row_first(job) ==
    IF PyTruthy(job.image_path) /\ PyTruthy(images_folder)
    THEN [raised |-> FALSE, path |-> job.image_path, looked_up |-> FALSE]
    ELSE IF PyTruthy(default_image)
    THEN [raised |-> FALSE, path |-> default_image, looked_up |-> FALSE]
    ELSE IF PyTruthy(images_folder)
    THEN [raised |-> find_image_for_contact(fs, job.number, file_path, images_folder).raised,
          path |-> find_image_for_contact(fs, job.number, file_path, images_folder).path,
          looked_up |-> TRUE]
    ELSE [raised |-> FALSE, path |-> PyNone, looked_up |-> FALSE]

\* The image selection with the lookup made before the row's own path is read.
loop_image_path_lookup_first(job) ==
    IF PyTruthy(default_image)
    THEN [raised |-> FALSE, path |-> default_image, looked_up |-> FALSE]
    ELSE IF PyTruthy(images_folder)
    THEN IF PyTruthy(find_image_for_contact(fs, job.number, file_path, images_folder).path)
         THEN [raised |-> FALSE,
               path |-> find_image_for_contact(fs, job.number, file_path, images_folder).path,
               looked_up |-> TRUE]
         ELSE [raised |-> FALSE, path |-> job.image_path, looked_up |-> TRUE]
    ELSE [raised |-> FALSE, path |-> PyNone, looked_up |-> FALSE]

\* The image selection with the row's own path used in text-only mode too.
loop_image_path_row_always(job) ==
    IF PyTruthy(default_image)
    THEN [raised |-> FALSE, path |-> default_image, looked_up |-> FALSE]
    ELSE IF PyTruthy(images_folder) /\ ~PyTruthy(job.image_path)
    THEN [raised |-> find_image_for_contact(fs, job.number, file_path, images_folder).raised,
          path |-> find_image_for_contact(fs, job.number, file_path, images_folder).path,
          looked_up |-> TRUE]
    ELSE [raised |-> FALSE, path |-> job.image_path, looked_up |-> FALSE]

\* The image path of the delivery loop for one contact; looked_up tells that
\* find_image_for_contact was called, raised that it raised.
loop_image_path(job) ==
    IF PyTruthy(default_image)
    THEN [raised |-> FALSE, path |-> default_image, looked_up |-> FALSE]
    ELSE IF PyTruthy(images_folder)
    THEN IF PyTruthy(job.image_path)
         THEN [raised |-> FALSE, path |-> job.image_path, looked_up |-> FALSE]
         ELSE LET found == find_image_for_contact(fs, job.number, file_path, images_folder)
              IN  [raised |-> found.raised, path |-> found.path, looked_up |-> TRUE]
    ELSE [raised |-> FALSE, path |-> PyNone, looked_up |-> FALSE]

\* The failed counter left alone by a failed attempt.
counted_failed_never(sent, n) == n

\* "if send_whatsapp_message(...): successful += 1  else: failed += 1"
counted_successful(sent, n) == IF sent THEN n + 1 ELSE n

counted_failed(sent, n) == IF sent THEN n ELSE n + 1

\* One iteration of the delivery loop: the image is selected and
\* send_whatsapp_message returns True or False.  An exception of the
\* selection leaves the loop for "except Exception" and the finally clause.
SendNext ==
    /\ pc = "loop"
    /\ Len(attempts) < Len(Enumerated(contacts, args.start_from))
    /\ LET entry == Enumerated(contacts, args.start_from)[Len(attempts) + 1]
           selected == loop_image_path(entry.contact)
       IN  IF selected.raised
           THEN /\ pc' = "finally"
                /\ UNCHANGED <<index, successful, failed, attempts>>
           ELSE /\ \E sent \in {send_whatsapp_message(fs, selected.path, env).sent :
                                    env \in SendEnvs} :
                     /\ attempts' = Append(attempts,
                                           [index |-> entry.index,
                                            number |-> entry.contact.number,
                                            message |-> entry.contact.message,
                                            search_query |->
                                                search_query(entry.contact.number),
                                            image_path |-> selected.path,
                                            looked_up |-> selected.looked_up,
                                            sent |-> sent])
                     /\ successful' = counted_successful(sent, successful)
                     /\ failed' = counted_failed(sent, failed)
                /\ index' = entry.index + 1
                /\ pc' = pc
    /\ UNCHANGED <<input_vars, reader_vars, contacts, default_image, images_folder,
                   driver, call_vars, run_vars>>

\* The loop is exhausted: the totals are printed.
LoopDone ==
    /\ pc = "loop"
    /\ Len(attempts) >= Len(Enumerated(contacts, args.start_from))
    /\ pc' = "finally"
    /\ UNCHANGED <<input_vars, reader_vars, contacts, bulk_vars, call_vars, run_vars>>

\* finally: driver.quit()
Finally ==
    /\ pc = "finally"
    /\ driver' = "quit"
    /\ pc' = "done"
    /\ UNCHANGED <<input_vars, reader_vars, contacts, default_image, images_folder,
                   index, successful, failed, attempts, call_vars, run_vars>>

Next ==
    \/ LoadWorkbook
    \/ IterRow
    \/ EndOfRows
    \/ CheckContacts
    \/ CheckImages
    \/ SetupDriver
    \/ InitWhatsappWeb
    \/ SendNext
    \/ LoopDone
    \/ Finally

Spec == Init /\ [][Next]_vars

SpecBulk == InitBulk /\ [][Next]_vars

-----------------------------------------------------------------------------
(* One direct call of find_image_for_contact or of send_whatsapp_message.   *)

FindCalls ==
    {[fn |-> "find", contact_number |-> number, images_folder |-> folder,
      image_path |-> PyNone, env |-> NoCall.env] :
        number \in {<<"+", "1", "2">>, <<"1", " ", "2", "-">>, <<"3">>},
        folder \in {PyNone, FolderName, Folder, <<"n", "o">>}}

SendCalls ==
    {[fn |-> "send", contact_number |-> <<"3">>, images_folder |-> PyNone,
      image_path |-> path, env |-> env] :
        path \in {PyNone, <<>>, Join(ExcelDir, <<"a", ".", "j", "p", "g">>),
                  Join(ExcelDir, DefaultImageName)},
        env \in SendEnvs}

InitCalls ==
    /\ file_status = "ok"
    /\ file_path = BulkFilePath
    /\ sheet = <<HeaderRow>>
    /\ args = MainArgs
    /\ fs \in FileSystems
    /\ pc = "call"
    /\ row_index = 2
    /\ read_contacts = <<>>
    /\ error_branch = FALSE
    /\ contacts = <<>>
    /\ default_image = args.default_image
    /\ images_folder = args.images_folder
    /\ driver = "open"
    /\ index = args.start_from
    /\ successful = 0
    /\ failed = 0
    /\ attempts = <<>>
    /\ call \in FindCalls \cup SendCalls
    /\ result = <<>>
    /\ box = NoBox
    /\ logged_in = "yes"
    /\ cut = <<>>
    /\ resume = <<>>
    /\ runs = <<>>

CallFind ==
    /\ pc = "call"
    /\ call.fn = "find"
    /\ result' = <<find_image_for_contact(fs, call.contact_number, file_path,
                                          call.images_folder)>>
    /\ pc' = "called"
    /\ UNCHANGED <<input_vars, reader_vars, contacts, bulk_vars, call, box, run_vars>>

CallSend ==
    /\ pc = "call"
    /\ call.fn = "send"
    /\ result' = <<send_whatsapp_message(fs, call.image_path, call.env)>>
    /\ pc' = "called"
    /\ UNCHANGED <<input_vars, reader_vars, contacts, bulk_vars, call, box, run_vars>>

NextCalls ==
    \/ CallFind
    \/ CallSend

SpecCalls == InitCalls /\ [][NextCalls]_vars

-----------------------------------------------------------------------------
(* Vocabulary of the properties. *)

\* The text a cell holds; an empty cell holds none.
CellText(cell) == IF cell.t = "none" THEN <<>> ELSE Str(cell)

\* Cell k of the row is absent, empty or whitespace only.
Blank(row, k) == Len(row) < k \/ Strip(CellText(row[k])) = <<>>

\* Number and message are both non-empty after trimming.
Qualifies(row) == ~Blank(row, 1) /\ ~Blank(row, 3)

DataRows == 2..Len(sheet)

\* The reader has returned to send_bulk_messages.
ReadReturned == pc \notin {"load", "rows"}

\* The reader has returned through "return contacts".
ReadCompleted == ReadReturned /\ ~error_branch

\* The returned list holds a job built from sheet row i.
Included(i) == \E k \in 1..Len(contacts) : contacts[k].row = i

\* The sheet rows of the returned jobs, in list order.
SourceRows == [k \in 1..Len(contacts) |-> contacts[k].row]

\* The qualifying data rows, in sheet order.
QualifyingRows ==
    SelectSeq([k \in 1..(Len(sheet) - 1) |-> k + 1], LAMBDA i : Qualifies(sheet[i]))

Separators == {" ", "-", "(", ")"}

Digits == {"0", "1", "2", "3", "4", "5", "6", "7", "8", "9"}

\* Decimal digits, with at most one '+' and that one in first position.
DigitsWithLeadingPlus(str) ==
    \A k \in 1..Len(str) : str[k] \in Digits \/ (str[k] = "+" /\ k = 1)

\* The job's number cell, trimmed.
NumberText(job) == Strip(CellText(sheet[job.row][1]))

\* The job's message cell, as the sheet holds it.
BodyText(job) == CellText(sheet[job.row][3])

\* The job's row has a name cell that is not blank.
HasName(job) == ~Blank(sheet[job.row], 2)

Greeting(job) ==
    <<"D", "e", "a", "r", " ">> \o Strip(CellText(sheet[job.row][2])) \o <<",", "\n", "\n">>

\* C1: a data row is in the output if and only if its number cell and its
\* message cell are both non-empty after trimming.
C1_IncludedIffBothNonBlank ==
    (file_status = "ok" /\ ReadCompleted)
        => \A i \in DataRows : Included(i) <=> Qualifies(sheet[i])

\* C2: the output holds each qualifying row exactly once, in sheet order, the
\* header row skipped and equal numbers kept, so it is as long as the number of
\* qualifying rows.
C2_QualifyingRowsOnceInOrder ==
    (file_status = "ok" /\ ReadCompleted)
        => /\ SourceRows = QualifyingRows
           /\ Len(contacts) = Len(QualifyingRows)

\* C3: the number of every job built is the trimmed cell text without its
\* spaces, hyphens and parentheses, every other character kept in place; a
\* leading '+' stays the first character.
C3_NumberStripsSeparatorsOnly ==
    \A k \in 1..Len(read_contacts) :
        LET job == read_contacts[k]
        IN  /\ job.number = SelectSeq(NumberText(job), LAMBDA ch : ch \notin Separators)
            /\ (NumberText(job) # <<>> /\ Head(NumberText(job)) = "+")
                   => (job.number # <<>> /\ Head(job.number) = "+")

\* C3 witness: the reader returned +123 for the cell " +1 (2)-3 ".
C3_Witness ==
    /\ ReadCompleted
    /\ \E k \in 1..Len(contacts) :
         /\ contacts[k].number = <<"+", "1", "2", "3">>
         /\ Len(NumberText(contacts[k])) > 4

\* C4 as stated: every number is decimal digits with at most one '+', in
\* first position, whatever the number cell holds.
C4_NumberDigitsAndPlusOnly ==
    \A k \in 1..Len(read_contacts) : DigitsWithLeadingPlus(read_contacts[k].number)

\* The cell text holds only digits, separators and one '+' before any digit.
PhoneLike(str) ==
    /\ \A k \in 1..Len(str) : str[k] \in Digits \cup Separators \cup {"+"}
    /\ \A k \in 1..Len(str) :
         str[k] = "+" => \A j \in 1..(k - 1) : str[j] \in Separators

\* C4 amended: no number holds a space, hyphen or parenthesis, and a number
\* is digits with an optional leading '+' whenever the trimmed cell held only
\* digits, separators and one '+' before the first digit.
C4_NumberHasNoSeparators ==
    \A k \in 1..Len(read_contacts) :
        LET job == read_contacts[k]
        IN  /\ \A j \in 1..Len(job.number) : job.number[j] \notin Separators
            /\ PhoneLike(NumberText(job)) => DigitsWithLeadingPlus(job.number)

\* C4 witness: the reader returned +1 for the cell "(+1)".
C4_Witness ==
    /\ ReadCompleted
    /\ \E k \in 1..Len(contacts) :
         /\ contacts[k].number = <<"+", "1">>
         /\ PhoneLike(NumberText(contacts[k]))
         /\ Head(NumberText(contacts[k])) = "("

\* C5: with a non-blank name cell the message is "Dear " + name + ",\n\n" +
\* the body without its leading newlines, no other character of the body
\* altered.
C5_GreetingKeepsBody ==
    \A k \in 1..Len(read_contacts) :
        LET job == read_contacts[k]
        IN  HasName(job)
                => job.message = Greeting(job) \o LStrip(BodyText(job), {"\n", "\r"})

\* C6: with an absent or blank name cell the message is the body cell's text
\* unchanged, leading whitespace and newlines included.
C6_NoNameKeepsBodyUnchanged ==
    \A k \in 1..Len(read_contacts) :
        LET job == read_contacts[k]
        IN  ~HasName(job) => job.message = BodyText(job)

\* C7: a non-blank image cell gives an absolute path, the trimmed cell text
\* when that is absolute and else the text joined to the spreadsheet's
\* directory; an absent, empty or blank image cell gives None.
C7_ImagePathAbsoluteOrNone ==
    \A k \in 1..Len(read_contacts) :
        LET job == read_contacts[k]
            row == sheet[job.row]
        IN  IF Blank(row, 4)
            THEN job.image_path = PyNone
            ELSE LET text == Strip(CellText(row[4]))
                 IN  /\ IsAbs(job.image_path)
                     /\ job.image_path =
                            IF IsAbs(text) THEN text
                            ELSE Join(Dirname(Abspath(file_path)), text)

\* C8 as stated: a missing, corrupt or unreadable file ends the read in an
\* outcome the caller can tell apart from a successful read, so what the caller
\* receives is not the empty list that a valid sheet without qualifying rows
\* gives; the run halts with the browser never started and nothing delivered.
C8_ErrorOutcomeDistinct ==
    (file_status # "ok" /\ ReadReturned)
        => /\ contacts # <<>>
           /\ driver = "none"
           /\ attempts = <<>>

\* C8 amended: a missing, corrupt or unreadable file takes the reader's error
\* branch, which returns the empty list (the value a valid sheet without
\* accepted rows returns too); no partial list is returned, and the run halts
\* with the browser never started and no delivery attempted.
C8_ErrorReturnsEmptyAndHalts ==
    (file_status # "ok" /\ ReadReturned)
        => /\ error_branch
           /\ contacts = <<>>
           /\ pc \in {"returned", "halted"}
           /\ driver = "none"
           /\ attempts = <<>>

\* C8 witness: the run on a corrupt file has halted.
C8_Witness == file_status = "corrupt" /\ pc = "halted" /\ error_branch

\* C9: a valid file without qualifying rows returns the empty list and does
\* not enter the reader's error branch.
C9_NoQualifyingRowsNoError ==
    (/\ file_status = "ok"
     /\ ReadReturned
     /\ \A i \in DataRows : ~Qualifies(sheet[i]) /\ ~RowAccepted(sheet[i]))
        => (contacts = <<>> /\ ~error_branch)

-----------------------------------------------------------------------------
(* KeyboardInterrupt, and the run started again at the printed resume       *)
(* index.  An interrupt swallowed by a bare "except:" inside the delivery   *)
(* functions changes only the outcome of the step it hits.                  *)

\* Sheets of the interrupted runs: up to MaxBulkRows rows of one kind.
RunRow == <<StrCell(<<"+", "1", "2">>), NoneCell, StrCell(<<"H", "i">>)>>

RunSheets ==
    {<<HeaderRow>> \o [k \in 1..n |-> RunRow] : n \in 0..MaxBulkRows}

InitRuns ==
    /\ file_status = "ok"
    /\ file_path = BulkFilePath
    /\ sheet \in RunSheets
    /\ args \in {a \in BulkArgs : a.default_image = PyNone /\ a.images_folder = PyNone}
    /\ fs = MainFs
    /\ runs = <<>>
    /\ Start

\* The resume index one too high.
resume_index_skips_one(start, done_ok, done_failed) == start + done_ok + done_failed + 1

\* "You can resume from index {start_from + successful + failed} next time"
resume_index(start, done_ok, done_failed) == start + done_ok + done_failed

\* KeyboardInterrupt while init_whatsapp_web waits for the login: the handler
\* prints its first line, and its second line reads successful and failed
\* before they are assigned, so no resume index is printed; finally follows.
InterruptLogin ==
    /\ pc = "login"
    /\ cut' = Append(cut, [at |-> "login", index |-> args.start_from, delivered |-> FALSE])
    /\ pc' = "finally"
    /\ UNCHANGED <<input_vars, reader_vars, contacts, bulk_vars, call_vars,
                   logged_in, resume, runs>>

\* KeyboardInterrupt in the delivery loop: between two calls or in a call
\* that has not sent the message yet ("idle"), or in the delay that follows
\* the sending of the next job's message, before send_whatsapp_message
\* returns ("delay").  The handler prints the resume index.
InterruptLoop ==
    /\ pc = "loop"
    /\ \E at \in {"idle", "delay"} :
         /\ at = "delay" => Len(attempts) < Len(Enumerated(contacts, args.start_from))
         /\ cut' = Append(cut, [at |-> at,
                                index |-> args.start_from + Len(attempts),
                                delivered |-> at = "delay"])
    /\ resume' = <<resume_index(args.start_from, successful, failed)>>
    /\ pc' = "finally"
    /\ UNCHANGED <<input_vars, reader_vars, contacts, bulk_vars, call_vars,
                   logged_in, runs>>

\* KeyboardInterrupt during the time.sleep(5) of the finally clause: the bare
\* except swallows it and driver.quit() is not called.
InterruptWait ==
    /\ pc = "finally"
    /\ driver = "open"
    /\ cut' = Append(cut, [at |-> "wait", index |-> args.start_from + Len(attempts),
                           delivered |-> FALSE])
    /\ pc' = "done"
    /\ UNCHANGED <<input_vars, reader_vars, contacts, bulk_vars, call_vars,
                   logged_in, resume, runs>>

\* The user starts send_bulk_messages again on the same workbook, with
\* start_from set to the resume index that was printed.
Restart ==
    /\ pc = "done"
    /\ resume # <<>>
    /\ runs = <<>>
    /\ runs' = <<[start_from |-> args.start_from, attempts |-> attempts, cut |-> cut]>>
    /\ args' = [args EXCEPT !.start_from = resume[1]]
    /\ pc' = "load"
    /\ row_index' = 2
    /\ read_contacts' = <<>>
    /\ error_branch' = FALSE
    /\ contacts' = <<>>
    /\ default_image' = args.default_image
    /\ images_folder' = args.images_folder
    /\ driver' = "none"
    /\ index' = resume[1]
    /\ successful' = 0
    /\ failed' = 0
    /\ attempts' = <<>>
    /\ logged_in' = "pending"
    /\ cut' = <<>>
    /\ resume' = <<>>
    /\ UNCHANGED <<file_status, file_path, sheet, fs, call_vars>>

NextRuns ==
    \/ Next
    \/ InterruptLogin
    \/ InterruptLoop
    \/ InterruptWait
    \/ Restart

SpecRuns == InitRuns /\ [][NextRuns]_vars

\* Every step of a run past the driver setup ends (the login wait has a
\* timeout, the sleeps are finite), so a run that can take one takes it
\* unless the user interrupts it first.
SpecRunsFair ==
    InitRuns /\ [][NextRuns]_vars
    /\ WF_vars(InitWhatsappWeb \/ SendNext \/ LoopDone \/ Finally)

-----------------------------------------------------------------------------
(* get_fresh_message_box(driver, max_retries), one lookup at a time. *)

\* The largest max_retries a caller passes (send_whatsapp_message, step 3).
MaxRetries == 5

message_selectors ==
    <<"data-tab-10", "role-textbox", "compose-box-input", "footer",
      "spellcheck", "selectable-text">>

\* What one lookup can do: the element is clickable and displayed ("found"),
\* clickable but not displayed ("hidden"), the wait times out ("timeout"),
\* or the wait or is_displayed() raises another exception ("error").
LookupOutcomes == {"found", "hidden", "timeout", "error"}

\* The handler as "except TimeoutException" alone.
lookup_propagates_errors(outcome) == outcome = "error"

\* "except (TimeoutException, Exception): continue": no outcome leaves the loop
\* as an exception.
lookup_propagates(outcome) == FALSE

InitBox ==
    /\ file_status = "ok"
    /\ file_path = BulkFilePath
    /\ sheet = <<HeaderRow>>
    /\ args = MainArgs
    /\ fs = MainFs
    /\ pc = "box"
    /\ row_index = 2
    /\ read_contacts = <<>>
    /\ error_branch = FALSE
    /\ contacts = <<>>
    /\ default_image = args.default_image
    /\ images_folder = args.images_folder
    /\ driver = "open"
    /\ index = args.start_from
    /\ successful = 0
    /\ failed = 0
    /\ attempts = <<>>
    /\ call = NoCall
    /\ result = <<>>
    /\ \E retries \in 0..MaxRetries :
         box = [max_retries |-> retries, attempt |-> 0, selector |-> 1,
                lookups |-> 0, last |-> "none", returned |-> "running",
                raised |-> FALSE]
    /\ logged_in = "yes"
    /\ cut = <<>>
    /\ resume = <<>>
    /\ runs = <<>>

\* One pass of the inner loop body: WebDriverWait(driver, 5).until(...) and
\* is_displayed() for the selector in turn.
BoxLookup ==
    /\ pc = "box"
    /\ box.attempt < box.max_retries
    /\ \E outcome \in LookupOutcomes :
         IF lookup_propagates(outcome)
         THEN /\ box' = [box EXCEPT !.lookups = @ + 1, !.last = outcome,
                                    !.returned = "nothing", !.raised = TRUE]
              /\ pc' = "called"
         ELSE IF outcome = "found"
         THEN /\ box' = [box EXCEPT !.lookups = @ + 1, !.last = outcome,
                                    !.returned = "element"]
              /\ pc' = "called"
         ELSE /\ box' = [box EXCEPT
                            !.lookups = @ + 1,
                            !.last = outcome,
                            !.selector = IF @ = Len(message_selectors) THEN 1 ELSE @ + 1,
                            !.attempt = IF box.selector = Len(message_selectors)
                                        THEN @ + 1 ELSE @]
              /\ pc' = pc
    /\ UNCHANGED <<input_vars, reader_vars, contacts, bulk_vars, call, result, run_vars>>

\* range(max_retries) is exhausted: "return None".
BoxGiveUp ==
    /\ pc = "box"
    /\ box.attempt >= box.max_retries
    /\ box' = [box EXCEPT !.returned = "none"]
    /\ pc' = "called"
    /\ UNCHANGED <<input_vars, reader_vars, contacts, bulk_vars, call, result, run_vars>>

NextBox ==
    \/ BoxLookup
    \/ BoxGiveUp

\* Every lookup ends within the 5 seconds of its WebDriverWait and the pause
\* between rounds is a sleep of 0.8 seconds, so the function keeps stepping.
SpecBox == InitBox /\ [][NextBox]_vars /\ WF_vars(NextBox)

-----------------------------------------------------------------------------
(* Image selection of the delivery loop: C11 to C13, C15 and C20. *)

\* The contact an attempt was made for.
JobOf(k) == contacts[attempts[k].index + 1]

\* A path given relative to the spreadsheet, resolved against its directory.
Resolved(p) == IF IsAbs(p) THEN p ELSE Join(Dirname(Abspath(file_path)), p)

DefaultConfigured == PyTruthy(args.default_image)
DefaultExists == DefaultConfigured /\ Exists(fs, Resolved(args.default_image))
FolderConfigured == PyTruthy(args.images_folder)
FolderExists == FolderConfigured /\ Exists(fs, Resolved(args.images_folder))

\* C11: when default_image is configured and the file exists, every attempt
\* is made with that one path, whatever the row's image cell and the images
\* folder hold, and no lookup is made.
C11_DefaultImageForEveryJob ==
    DefaultExists
        => \A k \in 1..Len(attempts) :
               /\ attempts[k].image_path = Resolved(args.default_image)
               /\ ~attempts[k].looked_up

\* C11 witness: with an images folder configured too, a row with its own
\* image path was attempted with the default image.
C11_Witness ==
    /\ DefaultExists
    /\ FolderConfigured
    /\ \E k \in 1..Len(attempts) :
         /\ PyTruthy(JobOf(k).image_path)
         /\ JobOf(k).image_path # Resolved(args.default_image)
         /\ attempts[k].image_path = Resolved(args.default_image)

C13_ExplicitPathInEveryConfiguration ==
    ~DefaultConfigured
        => \A k \in 1..Len(attempts) :
               PyTruthy(JobOf(k).image_path)
                   => attempts[k].image_path = JobOf(k).image_path

\* The image a lookup beside the spreadsheet gives for a number: the file
\* named after it with the first supported extension that exists, failing
\* that the first file of the directory's listing with a supported extension.
BesideSpreadsheet(number) ==
    LET dir == Dirname(Abspath(file_path))
        named == {k \in 1..Len(image_extensions) :
                     Exists(fs, Join(dir, clean_number(number) \o image_extensions[k]))}
        listed == {i \in 1..Len(fs.list[dir]) : IsImageName(fs.list[dir][i])}
    IN  IF named # {}
        THEN Join(dir, clean_number(number) \o image_extensions[
                 CHOOSE k \in named : \A j \in named : k <= j])
        ELSE IF listed # {} /\ dir \notin fs.unlistable
        THEN Join(dir, fs.list[dir][CHOOSE i \in listed : \A j \in listed : i <= j])
        ELSE PyNone

\* C15: with no default image and no images folder configured, a row
\* without an explicit image path is attempted with the file named after its
\* number in the spreadsheet's directory, failing that with the first
\* image-like file of that directory.
C15_SpreadsheetDirFallback ==
    (~DefaultConfigured /\ ~FolderConfigured)
        => \A k \in 1..Len(attempts) :
               (~PyTruthy(JobOf(k).image_path)
                /\ BesideSpreadsheet(JobOf(k).number) # PyNone)
                   => attempts[k].image_path = BesideSpreadsheet(JobOf(k).number)

\* Text-only mode: no default image is in effect, and the images folder is
\* None or does not exist.
TextOnlyMode == ~DefaultExists /\ ~FolderExists

-----------------------------------------------------------------------------
(* The delivery loop: C19. *)

\* C19: for 0 <= start_from <= len(contacts), the loop attempts the jobs at
\* the indices start_from .. len(contacts)-1 and no other: while one of them
\* is left, whatever the outcome of the attempt before, the only step of the
\* loop is the attempt of the next index, reported with the index, number and
\* message the job has in the full list; the loop ends only after the last.
C19_AttemptsFromStartInOrder ==
    [][(pc = "loop" /\ args.start_from <= Len(contacts))
          => IF Len(attempts) < Len(contacts) - args.start_from
             THEN /\ pc' = "loop"
                  /\ Len(attempts') = Len(attempts) + 1
                  /\ SubSeq(attempts', 1, Len(attempts)) = attempts
                  /\ LET i == args.start_from + Len(attempts)
                         last == attempts'[Len(attempts')]
                     IN  /\ last.index = i
                         /\ last.number = contacts[i + 1].number
                         /\ last.message = contacts[i + 1].message
             ELSE /\ pc' = "finally"
                  /\ attempts' = attempts]_vars

\* C19 witness: a run resumed at index 1 of three contacts has ended; the
\* attempt of index 1 failed and index 2 was attempted after it.
C19_Witness ==
    /\ pc = "done"
    /\ args.start_from = 1
    /\ Len(contacts) = 3
    /\ Len(attempts) = 2
    /\ attempts[1].index = 1
    /\ ~attempts[1].sent
    /\ attempts[2].index = 2

\* The delivery loop ran to its end: the login succeeded and no
\* KeyboardInterrupt reached the loop.
LoopCompleted ==
    /\ pc \in {"finally", "done"}
    /\ logged_in = "yes"
    /\ \A k \in 1..Len(cut) : cut[k].at = "wait"

\* C21 as stated: successful + failed is the number of attempts that have
\* returned, each attempt adds one to exactly one of the two counters, and
\* at normal completion successful + failed = len(contacts) - start_from.
C21_CountersSumToListRemainder ==
    [][/\ successful' + failed' = Len(attempts')
       /\ attempts' # attempts
            => \/ successful' = successful + 1 /\ failed' = failed
               \/ successful' = successful /\ failed' = failed + 1
       /\ LoopCompleted' => successful' + failed' = Len(contacts') - args'.start_from]_vars

\* C21: the same, the sum at normal completion being
\* len(contacts) - start_from for 0 <= start_from <= len(contacts), and 0
\* when start_from exceeds len(contacts).
C21_CountersSumToAttempts ==
    [][/\ successful' + failed' = Len(attempts')
       /\ attempts' # attempts
            => \/ successful' = successful + 1 /\ failed' = failed
               \/ successful' = successful /\ failed' = failed + 1
       /\ LoopCompleted'
            => successful' + failed' =
                  IF args'.start_from <= Len(contacts')
                  THEN Len(contacts') - args'.start_from
                  ELSE 0]_vars

\* C21 witness: a run resumed at index 1 has completed with one successful
\* and one failed attempt.
C21_Witness ==
    /\ LoopCompleted
    /\ args.start_from = 1
    /\ successful = 1
    /\ failed = 1
    /\ Len(contacts) = 3

\* C22: when default_image is configured but the file does not exist, every
\* attempt is made without an image, whether or not images_folder is
\* configured too.
C22_MissingDefaultSendsTextOnly ==
    (DefaultConfigured /\ ~DefaultExists)
        => \A k \in 1..Len(attempts) : attempts[k].image_path = PyNone

\* C24: an attempt is made only with a non-empty contact list, a created
\* driver and a login that returned True, reached in that order; with an
\* empty list the driver is never created, and after a login timeout no job
\* is attempted.
C24_AttemptsOnlyAfterLogin ==
    /\ attempts # <<>> => contacts # <<>> /\ driver # "none" /\ logged_in = "yes"
    /\ logged_in # "pending" => driver # "none"
    /\ driver # "none" => contacts # <<>>
    /\ logged_in = "timeout" => attempts = <<>>

\* C24 witness: the run with contacts and a driver has ended after a login
\* timeout, without an attempt.
C24_Witness ==
    /\ pc = "done"
    /\ contacts # <<>>
    /\ driver = "quit"
    /\ logged_in = "timeout"
    /\ attempts = <<>>

-----------------------------------------------------------------------------
(* find_image_for_contact called directly: C14, C16 and C17. *)

FindReturned == pc = "called" /\ call.fn = "find"

\* The images folder of the call, relative names taken beside the spreadsheet.
CallFolder == Resolved(call.images_folder)

CallFolderExists == PyTruthy(call.images_folder) /\ Exists(fs, CallFolder)

SpreadsheetDir == Dirname(Abspath(file_path))

\* The contact number without '+', spaces and hyphens.
Plain(number) == SelectSeq(number, LAMBDA c : c \notin {"+", " ", "-"})

SupportedExtensions ==
    <<<<".", "j", "p", "g">>, <<".", "j", "p", "e", "g">>, <<".", "p", "n", "g">>,
      <<".", "g", "i", "f">>, <<".", "w", "e", "b", "p">>>>

\* The file of a directory named after the number of the call, with the
\* k-th supported extension.
NamedAfter(dir, k) == Join(dir, Plain(call.contact_number) \o SupportedExtensions[k])

HoldsNumberMatch(dir) ==
    \E k \in 1..Len(SupportedExtensions) : Exists(fs, NamedAfter(dir, k))

\* The places of a directory's listing whose names end with a supported
\* extension, whatever the case of the letters.
SupportedPlaces(dir) ==
    {i \in 1..Len(fs.list[dir]) :
        \E k \in 1..Len(SupportedExtensions) :
            EndsWith(Lower(fs.list[dir][i]), SupportedExtensions[k])}

HoldsSupported(dir) == dir \in DOMAIN fs.list /\ SupportedPlaces(dir) # {}

FirstSupported(dir) ==
    Join(dir, fs.list[dir][CHOOSE i \in SupportedPlaces(dir) :
                               \A j \in SupportedPlaces(dir) : i <= j])

Listable(dir) == dir \in DOMAIN fs.list /\ dir \notin fs.unlistable

\* C14: when the images folder is configured and exists, the call returns
\* the file of that folder named after the number with the first of .jpg,
\* .jpeg, .png, .gif, .webp for which such a file exists.
C14_FolderNumberMatchFirstExtension ==
    (FindReturned /\ CallFolderExists)
        => \A k \in 1..Len(SupportedExtensions) :
               (/\ Exists(fs, NamedAfter(CallFolder, k))
                /\ \A j \in 1..(k - 1) : ~Exists(fs, NamedAfter(CallFolder, j)))
                   => result[1] = [raised |-> FALSE, path |-> NamedAfter(CallFolder, k)]

\* C14 witness: two extensions exist for the number and the earlier is returned.
C14_Witness ==
    /\ FindReturned
    /\ CallFolderExists
    /\ \E k, j \in 1..Len(SupportedExtensions) :
         /\ k < j
         /\ Exists(fs, NamedAfter(CallFolder, k))
         /\ Exists(fs, NamedAfter(CallFolder, j))
         /\ result[1].path = NamedAfter(CallFolder, k)

\* C16 as stated: when the images folder exists and holds a file with a
\* supported extension but none named after the number, the call returns
\* the first such file of the folder's listing.
C16_FolderListingBeforeSpreadsheetDir ==
    (/\ FindReturned
     /\ CallFolderExists
     /\ HoldsSupported(CallFolder)
     /\ ~HoldsNumberMatch(CallFolder))
        => result[1] = [raised |-> FALSE, path |-> FirstSupported(CallFolder)]

\* C16: the same when the listing of the folder can be read.
C16_ListableFolderBeforeSpreadsheetDir ==
    (/\ FindReturned
     /\ CallFolderExists
     /\ Listable(CallFolder)
     /\ HoldsSupported(CallFolder)
     /\ ~HoldsNumberMatch(CallFolder))
        => result[1] = [raised |-> FALSE, path |-> FirstSupported(CallFolder)]

\* C16 witness: the spreadsheet's directory holds a file named after the
\* number, and the first image of the folder is returned.
C16_Witness ==
    /\ FindReturned
    /\ CallFolderExists
    /\ Listable(CallFolder)
    /\ ~HoldsNumberMatch(CallFolder)
    /\ HoldsNumberMatch(SpreadsheetDir)
    /\ HoldsSupported(CallFolder)
    /\ result[1].path = FirstSupported(CallFolder)

\* C17 as stated: the call never raises, and it returns None exactly when
\* neither the images folder (configured and existing) nor the spreadsheet's
\* directory holds a file with a supported extension.
C17_NoneIffNoSupportedFile ==
    FindReturned
        => /\ ~result[1].raised
           /\ result[1].path = PyNone
                <=> /\ ~(CallFolderExists /\ HoldsSupported(CallFolder))
                    /\ ~HoldsSupported(SpreadsheetDir)

\* What a lookup in a directory can find: a file named after the number, or
\* a file with a supported extension in a listing that can be read.
Findable(dir) ==
    HoldsNumberMatch(dir) \/ (Listable(dir) /\ HoldsSupported(dir))

\* C17: the call never raises, and it returns None exactly when neither the
\* images folder (configured and existing) nor the spreadsheet's directory
\* holds a file it can find.
C17_NoneIffNothingFindable ==
    FindReturned
        => /\ ~result[1].raised
           /\ result[1].path = PyNone
                <=> /\ ~(CallFolderExists /\ Findable(CallFolder))
                    /\ ~Findable(SpreadsheetDir)

\* C17 witness: a directory that cannot be listed holds an image, and None
\* is returned without an exception.
C17_Witness ==
    /\ FindReturned
    /\ HoldsSupported(SpreadsheetDir)
    /\ ~Listable(SpreadsheetDir)
    /\ result[1] = [raised |-> FALSE, path |-> PyNone]

-----------------------------------------------------------------------------
(* send_whatsapp_message called directly: C18. *)

SendReturned == pc = "called" /\ call.fn = "send"

\* send_image_with_caption was called with a path that names no file.
MissingImageHandedOver ==
    /\ SendReturned
    /\ result[1].image_called
    /\ ~Exists(fs, call.image_path)

\* C18 as stated: when the image path names a file that does not exist, no
\* error is raised, send_image_with_caption sends the caption through
\* send_text_fallback, and if that fails the text-only path of
\* send_whatsapp_message is attempted.
C18_MissingImageAlwaysFallsBack ==
    MissingImageHandedOver
        => /\ ~result[1].raised
           /\ result[1].image.fallback_called
           /\ ~result[1].image.caption_sent => result[1].text_attempted

\* C18: when the image path names a file that does not exist, no error is
\* raised and no image is sent; send_image_with_caption calls
\* send_text_fallback unless its check that the chat is open fails first; and
\* whenever it returns False the text-only path of send_whatsapp_message is
\* attempted before the job is reported as failed.
C18_MissingImageFallsBackWhenChatOpen ==
    MissingImageHandedOver
        => /\ ~result[1].raised
           /\ ~result[1].image.image_sent
           /\ call.env.chat_open => result[1].image.fallback_called
           /\ ~result[1].image.returned => result[1].text_attempted
           /\ ~result[1].sent => result[1].text_attempted

\* C18 witness: the file is missing, the fallback was called and failed, and
\* the text-only path was attempted.
C18_Witness ==
    /\ MissingImageHandedOver
    /\ result[1].image.fallback_called
    /\ ~result[1].image.caption_sent
    /\ result[1].text_attempted

\* C23: a call that sent the contact's message has waited delay_seconds
\* exactly once, whichever way the message went out, and a failed call has
\* not waited at all.
C23_DelayWaitedOncePerSend ==
    SendReturned
        => /\ result[1].sent => result[1].delays = 1
           /\ ~result[1].sent => result[1].delays = 0

-----------------------------------------------------------------------------
(* The number on its way from the sheet to the search box: C29. *)

\* C29: the search query send_whatsapp_message derives from a job's number
\* is the job's number as the reader produced it, whatever the cell held.
C29_SearchQueryIsJobNumber ==
    \A k \in 1..Len(attempts) : attempts[k].search_query = JobOf(k).number

\* C29 witness: an attempt for a job read from a cell that held separators
\* and a '+'.
C29_Witness ==
    \E k \in 1..Len(attempts) :
        LET cell == Str(sheet[JobOf(k).row][1])
        IN  /\ \E i \in 1..Len(cell) : cell[i] \in {" ", "-", "(", ")"}
            /\ \E i \in 1..Len(cell) : cell[i] = "+"
            /\ attempts[k].search_query = JobOf(k).number

-----------------------------------------------------------------------------
(* get_fresh_message_box: C28. *)

\* C28: the function makes at most max_retries * 6 lookups, never lets an
\* exception of a lookup out, returns the element of the first lookup that
\* finds one clickable and displayed, returns None only after
\* max_retries * 6 lookups none of which found one, and always terminates.
C28_MessageBoxTerminates ==
    /\ [][/\ box'.lookups <= box'.max_retries * 6
          /\ ~box'.raised
          /\ (box'.lookups # box.lookups /\ box'.last = "found")
                => box'.returned = "element"
          /\ box'.returned = "element" => box'.last = "found"
          /\ box'.returned = "none"
                => box'.lookups = box'.max_retries * 6 /\ box'.last # "found"
          /\ box'.returned = "running" => box'.last # "found"]_vars
    /\ <>(box.returned \in {"element", "none"})

\* C28 witness: with max_retries = 3 the element was found in the last
\* round, after lookups that timed out, raised or found a hidden element.
C28_Witness ==
    /\ box.max_retries = 3
    /\ box.returned = "element"
    /\ box.attempt = 2
    /\ box.lookups > 12

-----------------------------------------------------------------------------
(* Interrupted runs and their restart: C25 to C27. *)

\* The indices of the attempts of a log.
IndicesOf(log) == {log[k].index : k \in 1..Len(log)}

\* The indices whose message went out in a run: the attempts that returned
\* True, and the call cut during the delay that follows its sending.
DeliveredIn(log, cuts) ==
    {log[k].index : k \in {j \in 1..Len(log) : log[j].sent}}
    \cup {cuts[k].index : k \in {j \in 1..Len(cuts) : cuts[j].delivered}}

WaitInterrupted == cut # <<>> /\ cut[Len(cut)].at = "wait"

\* C25: the resume index printed after an interrupt of the delivery loop is
\* the index of the first job whose attempt has not been counted, and once
\* the run restarted at that index has completed, every job from the first
\* run's start_from on has been attempted in one of the two runs.
C25_ResumeIndexLeavesNoJobOut ==
    /\ resume # <<>>
         => /\ \A i \in args.start_from..(resume[1] - 1) : i \in IndicesOf(attempts)
            /\ resume[1] \notin IndicesOf(attempts)
            /\ resume[1] >= args.start_from
    /\ (runs # <<>> /\ LoopCompleted)
         => \A i \in runs[1].start_from..(Len(contacts) - 1) :
                i \in IndicesOf(runs[1].attempts) \cup IndicesOf(attempts)

\* C25 witness: the first run was interrupted after one counted attempt, and
\* the second run has completed the list.
C25_Witness ==
    /\ runs # <<>>
    /\ LoopCompleted
    /\ Len(runs[1].attempts) = 1
    /\ Len(attempts) = 2
    /\ pc = "done"

\* C26: across the interrupted run and the run restarted at the printed
\* resume index, no contact's message is sent twice.
C26_NoMessageSentTwice ==
    runs # <<>>
        => DeliveredIn(runs[1].attempts, runs[1].cut) \cap DeliveredIn(attempts, cut) = {}

\* C27: once the driver has been created, the run reaches driver.quit()
\* unless it is interrupted during the final wait, and a run that has ended
\* with the browser open was interrupted there.
C27_DriverQuitReached ==
    /\ (driver = "open") ~> (driver = "quit" \/ WaitInterrupted)
    /\ []((pc \in {"done", "halted"} /\ driver # "none")
             => (driver = "quit" \/ WaitInterrupted))

\* C27 witness: a run interrupted in the delivery loop has closed the browser.
C27_Witness ==
    /\ pc = "done"
    /\ driver = "quit"
    /\ cut # <<>>
    /\ cut[1].at \in {"idle", "delay"}

====
